---- MODULE Spec2Model ----
(***************************************************************************)
(* Model of network_monitor.py: the module-level deque network_history,    *)
(* NetworkMonitor.detect_anomaly, NetworkMonitor.generate_recommendation   *)
(* and the /api/monitor handler get_monitor_data that drives them.         *)
(*                                                                         *)
(* Numbers.  calculate_metrics rounds latency to 0.1 ms, packet_loss to    *)
(* 0.01 % and bandwidth to 0.1 %, so the model keeps them as integers:     *)
(* latency and bandwidth in tenths, packet_loss in hundredths.  The mean   *)
(* and the population standard deviation of numpy are not integers; the    *)
(* comparisons made with them are evaluated exactly, multiplied out (see   *)
(* ExceedsMeanPlusStd).  Binary floating point can differ from that only   *)
(* when the two sides of a comparison are equal up to rounding error.      *)
(*                                                                         *)
(* The fields cpu_usage and memory_usage of a reading, and the fields      *)
(* name, icon and location of a device entry, are copied through by the    *)
(* code and read by nothing modelled here; they are left out.              *)
(***************************************************************************)
EXTENDS Integers, Sequences, FiniteSets, TLC

VARIABLES
    network_history,  \* the module-level deque(maxlen=100), shared by all calls
    pc,               \* per request thread: position in get_monitor_data / detect_anomaly
    i,                \* per thread: loop variable of `for i in range(12)`
    metrics,          \* per thread: the reading of the call in progress (or the last one)
    recent_data,      \* per thread: local `recent_data` of detect_anomaly
    devices,          \* per thread: local list `devices` of get_monitor_data
    anomalies,        \* per thread: local list `anomalies` of the last response
    stats,            \* per thread: the `stats` counts of the last response
    appended,         \* history variable: every reading appended so far, with its device index
    n_odd,            \* history variable: how many appended readings were not the baseline
    own_pos,          \* history variable, per thread: Len(appended) right after its own append
    snap_pos,         \* history variable, per thread: Len(appended) when it took its snapshot
    pair_base,        \* history variable: network_history when a call began with no other call in progress
    pair_n            \* history variable: number of calls begun since pair_base was taken (capped at 3)

vars == <<network_history, pc, i, metrics, recent_data, devices, anomalies, stats,
          appended, n_odd, own_pos, snap_pos, pair_base, pair_n>>

---------------------------------------------------------------------------
(* Program constants *)

MaxHistory == 100        \* deque(maxlen=100)
RecentWindow == 30       \* list(network_history)[-30:]
MinSamples == 10         \* len(network_history) < 10
NumDevices == 12         \* range(12)
LatencyCritical == 700   \* metrics['latency'] > 70
LatencyWarning == 400    \* metrics['latency'] > 40
LossCriticalDelta == 200 \* avg_packet_loss + 2
LossCritical == 300      \* metrics['packet_loss'] > 3
LossWarningDelta == 100  \* avg_packet_loss + 1
LossWarning == 150       \* metrics['packet_loss'] > 1.5
BandwidthDelta == 200    \* avg_bandwidth - 20

None == "None"           \* Python's None (the only falsy issue value)

---------------------------------------------------------------------------
(* Bounds of the model *)

MaxCalls == 13           \* Spec: detect_anomaly calls in a run
MaxOdd == 2              \* Spec: readings other than Baseline in a run
MaxCallsMid == 32        \* SpecMid
MaxOddMid == 1
MaxCallsLong == 102      \* SpecLong
MaxOddLong == 1
MaxCallsConc == 12       \* SpecConc
MaxOddConc == 0
MaxCallsSecond == 2      \* SpecConc: calls the second request makes

Threads == {1, 2}
Other(t) == 3 - t

---------------------------------------------------------------------------
(* Readings *)

Reading(l, p, b) == [latency |-> l, packet_loss |-> p, bandwidth |-> b]

\* 20.0 ms, 0.20 %, 80.0 %: the values calculate_metrics yields on an idle host.
Baseline == Reading(200, 20, 800)

\* The other readings a call may carry.  All but the 75.0 ms one are values
\* calculate_metrics can return (latency 10.0..70.0, packet_loss 0..5.00,
\* bandwidth 20.0..100.0); 75.0 ms is a value of detect_anomaly's parameter that
\* its `> 70` branch needs and that calculate_metrics itself never produces.
OddReadings ==
    { Reading(450, 20, 800), Reading(750, 20, 800),
      Reading(200, 130, 800), Reading(200, 250, 800), Reading(200, 400, 800),
      Reading(200, 20, 500), Reading(450, 400, 800) }

OddReadingsMid ==
    { Reading(450, 20, 800), Reading(200, 20, 500), Reading(200, 400, 800),
      Reading(200, 400, 500), Reading(450, 400, 800) }

OddReadingsLong == { Reading(450, 400, 500) }

OddReadingsConc == { Reading(450, 20, 800) }

---------------------------------------------------------------------------
(* collections.deque(maxlen=100) *)

\* DequeAppend with the wrong end dropped: a full deque loses its newest element.
DequeAppend_DropNewest(h, m) ==
    IF Len(h) >= MaxHistory THEN Append(SubSeq(h, 1, Len(h) - 1), m) ELSE Append(h, m)

\* deque.append on a bounded deque: add at the right, drop from the left when full.
DequeAppend(h, m) ==
    IF Len(h) >= MaxHistory THEN Append(Tail(h), m) ELSE Append(h, m)

\* Snapshot without the slice: the whole history.
Snapshot_Whole(h) == h

\* Snapshot with the sign of the slice lost: [30:], what follows the first 30.
Snapshot_FromThirtieth(h) ==
    IF Len(h) > RecentWindow THEN SubSeq(h, RecentWindow + 1, Len(h)) ELSE <<>>

\* list(network_history)[-30:]: a new list of the last 30 elements (all of them if fewer).
Snapshot(h) ==
    IF Len(h) > RecentWindow THEN SubSeq(h, Len(h) - RecentWindow + 1, Len(h)) ELSE h

\* InsufficientHistory off by one: nine entries count as enough.
InsufficientHistory_NineEnough(h) == Len(h) < MinSamples - 1

\* len(network_history) < 10
InsufficientHistory(h) == Len(h) < MinSamples

---------------------------------------------------------------------------
(* numpy statistics over recent_data *)

Latencies(recent) == [k \in 1..Len(recent) |-> recent[k].latency]
PacketLosses(recent) == [k \in 1..Len(recent) |-> recent[k].packet_loss]
Bandwidths(recent) == [k \in 1..Len(recent) |-> recent[k].bandwidth]

RECURSIVE SumUpTo(_, _)
SumUpTo(xs, k) == IF k = 0 THEN 0 ELSE xs[k] + SumUpTo(xs, k - 1)

\* sum(xs)
Sum(xs) == SumUpTo(xs, Len(xs))

RECURSIVE SumSqUpTo(_, _)
SumSqUpTo(xs, k) == IF k = 0 THEN 0 ELSE xs[k] * xs[k] + SumSqUpTo(xs, k - 1)

\* sum(x*x for x in xs)
SumSq(xs) == SumSqUpTo(xs, Len(xs))

\* x > np.mean(xs) + k * np.std(xs), for k >= 0 and xs not empty.  With n = len(xs),
\* S = sum(xs), Q = sum of squares: mean = S/n and std = sqrt(n*Q - S*S)/n, so the
\* comparison is n*x - S > k*sqrt(n*Q - S*S).
ExceedsMeanPlusStd(x, xs, k) ==
    LET n == Len(xs)
        S == Sum(xs)
        Q == SumSq(xs)
        d == n * x - S
    IN  /\ d > 0
        /\ d * d > k * k * (n * Q - S * S)

\* x > np.mean(xs) + delta
ExceedsMeanPlus(x, xs, delta) == Len(xs) * x > Sum(xs) + Len(xs) * delta

\* x < np.mean(xs) - delta
BelowMeanMinus(x, xs, delta) == Len(xs) * x < Sum(xs) - Len(xs) * delta

---------------------------------------------------------------------------
(* detect_anomaly: the rules *)

HighLatency(m, recent) ==
    ExceedsMeanPlusStd(m.latency, Latencies(recent), 2) \/ m.latency > LatencyCritical

CriticalPacketLoss(m, recent) ==
    \/ ExceedsMeanPlus(m.packet_loss, PacketLosses(recent), LossCriticalDelta)
    \/ m.packet_loss > LossCritical

ElevatedLatency(m, recent) ==
    ExceedsMeanPlusStd(m.latency, Latencies(recent), 1) \/ m.latency > LatencyWarning

PacketLossDetected(m, recent) ==
    \/ ExceedsMeanPlus(m.packet_loss, PacketLosses(recent), LossWarningDelta)
    \/ m.packet_loss > LossWarning

LowBandwidth(m, recent) ==
    BelowMeanMinus(m.bandwidth, Bandwidths(recent), BandwidthDelta)

\* return 'healthy', 85, None
InsufficientResult == <<"healthy", 85, None>>

\* Classify with the latency warning tested before the critical conditions.
Classify_ElevatedLatencyFirst(m, recent) ==
    IF ElevatedLatency(m, recent) THEN <<"warning", 88, "Elevated Latency">>
    ELSE IF HighLatency(m, recent) THEN <<"critical", 98, "High Latency Detected">>
    ELSE IF CriticalPacketLoss(m, recent) THEN <<"critical", 97, "Critical Packet Loss">>
    ELSE IF PacketLossDetected(m, recent) THEN <<"warning", 85, "Packet Loss Detected">>
    ELSE IF LowBandwidth(m, recent) THEN <<"warning", 82, "Low Bandwidth">>
    ELSE <<"healthy", 95, None>>

\* Classify with the two packet-loss branches exchanged.
Classify_PacketLossWarningFirst(m, recent) ==
    IF HighLatency(m, recent) THEN <<"critical", 98, "High Latency Detected">>
    ELSE IF PacketLossDetected(m, recent) THEN <<"warning", 85, "Packet Loss Detected">>
    ELSE IF ElevatedLatency(m, recent) THEN <<"warning", 88, "Elevated Latency">>
    ELSE IF CriticalPacketLoss(m, recent) THEN <<"critical", 97, "Critical Packet Loss">>
    ELSE IF LowBandwidth(m, recent) THEN <<"warning", 82, "Low Bandwidth">>
    ELSE <<"healthy", 95, None>>

\* The if/elif chain; the initial status, confidence, issue are returned when no branch is taken.
Classify(m, recent) ==
    IF HighLatency(m, recent) THEN <<"critical", 98, "High Latency Detected">>
    ELSE IF CriticalPacketLoss(m, recent) THEN <<"critical", 97, "Critical Packet Loss">>
    ELSE IF ElevatedLatency(m, recent) THEN <<"warning", 88, "Elevated Latency">>
    ELSE IF PacketLossDetected(m, recent) THEN <<"warning", 85, "Packet Loss Detected">>
    ELSE IF LowBandwidth(m, recent) THEN <<"warning", 82, "Low Bandwidth">>
    ELSE <<"healthy", 95, None>>

\* What detect_anomaly returns once its append has produced history h, when nothing
\* else touches the history during the call.
DetectResult(h, m) ==
    IF InsufficientHistory(h) THEN InsufficientResult ELSE Classify(m, Snapshot(h))

---------------------------------------------------------------------------
(* generate_recommendation *)

RecommendationKeys ==
    { "High Latency Detected", "Critical Packet Loss", "Elevated Latency",
      "Packet Loss Detected", "Low Bandwidth" }

Recommendations ==
    [ issue \in RecommendationKeys |->
        CASE issue = "High Latency Detected" ->
               "Check network congestion, optimize routing paths, consider upgrading bandwidth"
          [] issue = "Critical Packet Loss" ->
               "Inspect physical connections, check for hardware failures, analyze network traffic"
          [] issue = "Elevated Latency" ->
               "Monitor application performance, reduce background processes, check for bandwidth throttling"
          [] issue = "Packet Loss Detected" ->
               "Check cable connections, verify switch ports, review QoS policies"
          [] issue = "Low Bandwidth" ->
               "Analyze bandwidth usage, implement traffic shaping, consider capacity upgrade" ]

DefaultRecommendation == "Continue monitoring network performance"

\* generate_recommendation with the 'Low Bandwidth' key missing from the dict.
generate_recommendation_NoLowBandwidth(issue) ==
    IF issue \in DOMAIN Recommendations \ {"Low Bandwidth"}
    THEN Recommendations[issue] ELSE DefaultRecommendation

\* recommendations.get(issue, 'Continue monitoring network performance')
generate_recommendation(issue) ==
    IF issue \in DOMAIN Recommendations THEN Recommendations[issue] ELSE DefaultRecommendation

---------------------------------------------------------------------------
(* get_monitor_data *)

DeviceTypes == << [name |-> "Access Point", prefix |-> "AP"],
                  [name |-> "Switch", prefix |-> "SW"],
                  [name |-> "SD-WAN", prefix |-> "WAN"] >>

\* f"{device_type['prefix']}-{str(i + 1).zfill(3)}"
DeviceId(k) == <<DeviceTypes[(k % 3) + 1].prefix, k + 1>>

\* The dict appended to `devices` for loop index k.
DeviceEntry(k, m, r) ==
    [ id |-> DeviceId(k), type |-> DeviceTypes[(k % 3) + 1].name,
      latency |-> m.latency, packet_loss |-> m.packet_loss, bandwidth |-> m.bandwidth,
      status |-> r[1], confidence |-> r[2], issue |-> r[3] ]

\* if device['status'] != 'healthy' and device['issue']
IsAnomalous(d) == d.status # "healthy" /\ d.issue # None

AnomalyEntry(d) ==
    [ device |-> d.id, type |-> d.type, issue |-> d.issue, severity |-> d.status,
      confidence |-> d.confidence, recommendation |-> generate_recommendation(d.issue) ]

\* The loop building `anomalies`: one entry per anomalous device, in device order.
BuildAnomalies(ds) ==
    LET sel == SelectSeq(ds, IsAnomalous)
    IN  [k \in 1..Len(sel) |-> AnomalyEntry(sel[k])]

CountStatus(ds, s) == Cardinality({k \in 1..Len(ds) : ds[k].status = s})

BuildStats(ds) ==
    [ healthy |-> CountStatus(ds, "healthy"), warning |-> CountStatus(ds, "warning"),
      critical |-> CountStatus(ds, "critical") ]

---------------------------------------------------------------------------
(* State machine *)

Init ==
    /\ network_history = <<>>
    /\ pc = [t \in Threads |-> "idle"]
    /\ i = [t \in Threads |-> 0]
    /\ metrics = [t \in Threads |-> Baseline]
    /\ recent_data = [t \in Threads |-> <<>>]
    /\ devices = [t \in Threads |-> <<>>]
    /\ anomalies = [t \in Threads |-> <<>>]
    /\ stats = [t \in Threads |-> BuildStats(<<>>)]
    /\ appended = <<>>
    /\ n_odd = 0
    /\ own_pos = [t \in Threads |-> 0]
    /\ snap_pos = [t \in Threads |-> 0]
    /\ pair_base = <<>>
    /\ pair_n = 0

\* A request for /api/monitor arrives: devices = [], the loop starts.
Request(t) ==
    /\ pc[t] = "idle"
    /\ pc' = [pc EXCEPT ![t] = "loop"]
    /\ i' = [i EXCEPT ![t] = 0]
    /\ devices' = [devices EXCEPT ![t] = <<>>]
    /\ UNCHANGED <<network_history, metrics, recent_data, anomalies, stats,
                   appended, n_odd, own_pos, snap_pos, pair_base, pair_n>>

\* The readings a call may carry under the bounds: the baseline, or an odd one while
\* the run has seen fewer than maxOdd of them.
Carried(maxOdd, odds) == {Baseline} \cup (IF n_odd < maxOdd THEN odds ELSE {})

InCall(t) == pc[t] \in {"check", "snapshot", "classify"}

\* Bookkeeping of the history variables when thread t returns from detect_anomaly:
\* a pair of overlapping calls is kept until the next call begins, anything else is dropped.
Returned(t) ==
    /\ own_pos' = [own_pos EXCEPT ![t] = 0]
    /\ snap_pos' = [snap_pos EXCEPT ![t] = 0]
    /\ pair_n' = IF pair_n = 2 \/ InCall(Other(t)) THEN pair_n ELSE 0
    /\ pair_base' = IF pair_n = 2 \/ InCall(Other(t)) THEN pair_base ELSE <<>>

\* One iteration of the loop with no other thread running: calculate_metrics,
\* detect_anomaly (append, length check, snapshot, statistics, rules), devices.append.
Iteration(t, maxCalls, maxOdd, odds) ==
    /\ pc[t] = "loop"
    /\ i[t] < NumDevices
    /\ Len(appended) < maxCalls
    /\ \E m \in Carried(maxOdd, odds) :
         LET h == DequeAppend(network_history, m)
             r == IF InsufficientHistory(h) THEN InsufficientResult
                  ELSE Classify(m, Snapshot(h))
         IN  /\ network_history' = h
             /\ metrics' = [metrics EXCEPT ![t] = m]
             /\ recent_data' = [recent_data EXCEPT ![t] =
                                  IF InsufficientHistory(h) THEN @ ELSE Snapshot(h)]
             /\ devices' = [devices EXCEPT ![t] = Append(@, DeviceEntry(i[t], m, r))]
             /\ appended' = Append(appended, [dev |-> i[t], reading |-> m])
             /\ n_odd' = IF m = Baseline THEN n_odd ELSE n_odd + 1
    /\ i' = [i EXCEPT ![t] = @ + 1]
    /\ UNCHANGED <<pc, anomalies, stats, own_pos, snap_pos, pair_base, pair_n>>

\* After the loop: anomalies, stats, the JSON response.
Respond(t) ==
    /\ pc[t] = "loop"
    /\ i[t] = NumDevices
    /\ anomalies' = [anomalies EXCEPT ![t] = BuildAnomalies(devices[t])]
    /\ stats' = [stats EXCEPT ![t] = BuildStats(devices[t])]
    /\ pc' = [pc EXCEPT ![t] = "idle"]
    /\ UNCHANGED <<network_history, i, metrics, recent_data, devices,
                   appended, n_odd, own_pos, snap_pos, pair_base, pair_n>>

---------------------------------------------------------------------------
(* detect_anomaly step by step, for requests served by concurrent threads.  *)
(* The interpreter switches threads between bytecodes only, so deque.append, *)
(* len() and list(deque) are each one step; detect_anomaly takes no lock     *)
(* around them.                                                              *)

\* calculate_metrics, then network_history.append(metrics)
CallAppend(t, maxCalls, maxOdd, odds) ==
    /\ pc[t] = "loop"
    /\ i[t] < NumDevices
    /\ Len(appended) < maxCalls
    /\ t = 2 => i[t] < MaxCallsSecond      \* bound: the second request gets this far
    /\ \E m \in Carried(maxOdd, odds) :
         /\ network_history' = DequeAppend(network_history, m)
         /\ metrics' = [metrics EXCEPT ![t] = m]
         /\ appended' = Append(appended, [dev |-> i[t], reading |-> m])
         /\ n_odd' = IF m = Baseline THEN n_odd ELSE n_odd + 1
    /\ own_pos' = [own_pos EXCEPT ![t] = Len(appended) + 1]
    /\ pair_n' = IF ~InCall(Other(t)) THEN 1 ELSE IF pair_n = 1 THEN 2 ELSE 3
    /\ pair_base' = IF ~InCall(Other(t)) THEN network_history
                    ELSE IF pair_n = 1 THEN pair_base ELSE <<>>
    /\ pc' = [pc EXCEPT ![t] = "check"]
    /\ UNCHANGED <<i, recent_data, devices, anomalies, stats, snap_pos>>

\* if len(network_history) < 10: return 'healthy', 85, None
CallCheck(t) ==
    /\ pc[t] = "check"
    /\ IF InsufficientHistory(network_history)
       THEN /\ devices' = [devices EXCEPT ![t] =
                             Append(@, DeviceEntry(i[t], metrics[t], InsufficientResult))]
            /\ i' = [i EXCEPT ![t] = @ + 1]
            /\ pc' = [pc EXCEPT ![t] = "loop"]
            /\ Returned(t)
       ELSE /\ pc' = [pc EXCEPT ![t] = "snapshot"]
            /\ UNCHANGED <<devices, i, own_pos, snap_pos, pair_base, pair_n>>
    /\ UNCHANGED <<network_history, metrics, recent_data, anomalies, stats, appended, n_odd>>

\* recent_data = list(network_history)[-30:]
CallSnapshot(t) ==
    /\ pc[t] = "snapshot"
    /\ recent_data' = [recent_data EXCEPT ![t] = Snapshot(network_history)]
    /\ snap_pos' = [snap_pos EXCEPT ![t] = Len(appended)]
    /\ pc' = [pc EXCEPT ![t] = "classify"]
    /\ UNCHANGED <<network_history, i, metrics, devices, anomalies, stats,
                   appended, n_odd, own_pos, pair_base, pair_n>>

\* np.mean / np.std over recent_data, the rules, return; then devices.append.
\* These read and write locals of the thread only.
CallClassify(t) ==
    /\ pc[t] = "classify"
    /\ devices' = [devices EXCEPT ![t] =
                     Append(@, DeviceEntry(i[t], metrics[t], Classify(metrics[t], recent_data[t])))]
    /\ i' = [i EXCEPT ![t] = @ + 1]
    /\ pc' = [pc EXCEPT ![t] = "loop"]
    /\ Returned(t)
    /\ UNCHANGED <<network_history, metrics, recent_data, anomalies, stats, appended, n_odd>>

---------------------------------------------------------------------------
(* Specifications *)

\* One client polling: requests are served one after the other.
Next ==
    \/ Request(1)
    \/ Iteration(1, MaxCalls, MaxOdd, OddReadings)
    \/ Respond(1)

Spec == Init /\ [][Next]_vars

NextMid ==
    \/ Request(1)
    \/ Iteration(1, MaxCallsMid, MaxOddMid, OddReadingsMid)
    \/ Respond(1)

SpecMid == Init /\ [][NextMid]_vars

NextLong ==
    \/ Request(1)
    \/ Iteration(1, MaxCallsLong, MaxOddLong, OddReadingsLong)
    \/ Respond(1)

SpecLong == Init /\ [][NextLong]_vars

\* app.run() serves each request in its own thread: two requests in progress at once.
NextConc ==
    \E t \in Threads :
        \/ Request(t)
        \/ CallAppend(t, MaxCallsConc, MaxOddConc, OddReadingsConc)
        \/ CallCheck(t)
        \/ CallSnapshot(t)
        \/ CallClassify(t)
        \/ Respond(t)

SpecConc == Init /\ [][NextConc]_vars

---------------------------------------------------------------------------
(* Notation of the properties *)

Min(a, b) == IF a < b THEN a ELSE b

\* The last k readings appended, oldest first.
LastAppended(k) ==
    [j \in 1..Min(k, Len(appended)) |->
        appended[Len(appended) - Min(k, Len(appended)) + j].reading]

\* The readings appended so far for loop index (device) k, oldest first.
OwnReadings(k) ==
    LET Mine(e) == e.dev = k
        own == SelectSeq(appended, Mine)
    IN  [j \in 1..Len(own) |-> own[j].reading]

ResultOf(d) == <<d.status, d.confidence, d.issue>>

\* In Spec, SpecMid and SpecLong: thread 1 has returned from a call of the request in progress.
Called == devices[1] # <<>>
LastDevice == devices[1][Len(devices[1])]
LastResult == ResultOf(LastDevice)

SevenResults ==
    { <<"healthy", 85, None>>, <<"healthy", 95, None>>,
      <<"critical", 98, "High Latency Detected">>, <<"critical", 97, "Critical Packet Loss">>,
      <<"warning", 88, "Elevated Latency">>, <<"warning", 85, "Packet Loss Detected">>,
      <<"warning", 82, "Low Bandwidth">> }

---------------------------------------------------------------------------
(* C1 *)

\* C1 (as claimed): the result returned for a reading of device d is the one
\* detect_anomaly computes from the readings classified for d alone, the new one
\* included: no reading of another device enters the history or the statistics.
C1_PerDeviceIsolation ==
    Called => LastResult = DetectResult(OwnReadings(i[1] - 1), metrics[1])

---------------------------------------------------------------------------
(* C2 *)

\* C2 (as claimed): a call made when fewer than 10 readings were classified before
\* it returns (healthy, 85, None).
C2_FewerThanTenBefore ==
    (Called /\ Len(appended) - 1 < MinSamples) => LastResult = InsufficientResult

\* C2 (amended): a call made when fewer than 9 readings were appended before it, so
\* that the history holds fewer than 10 entries with the call's own reading, returns
\* (healthy, 85, None) whatever the reading carries.
C2_FewerThanTenWithOwn ==
    (Called /\ Len(appended) - 1 < MinSamples - 1) => LastResult = InsufficientResult

\* Reached: the ninth call of a run carried a reading that is not the baseline and
\* was answered (healthy, 85, None).
C2_Witness ==
    /\ Called
    /\ Len(appended) = MinSamples - 1
    /\ metrics[1] # Baseline
    /\ LastResult = InsufficientResult

---------------------------------------------------------------------------
(* C3 *)

\* C3: with at least 10 entries in the history after the append, the result is the
\* outcome of the first rule, in the order 2,3,4,5,6,7, that the reading satisfies
\* against the statistics of the call's window; a reading that satisfies rules 2 and
\* 4 gets rule 2's outcome, and so does every reading with latency above 70.
C3_FirstMatchingRule ==
    (Called /\ Len(network_history) >= MinSamples) =>
        LET m == metrics[1]
            w == recent_data[1]
            r2 == HighLatency(m, w)
            r3 == CriticalPacketLoss(m, w)
            r4 == ElevatedLatency(m, w)
            r5 == PacketLossDetected(m, w)
            r6 == LowBandwidth(m, w)
        IN  /\ r2 => LastResult = <<"critical", 98, "High Latency Detected">>
            /\ (~r2 /\ r3) => LastResult = <<"critical", 97, "Critical Packet Loss">>
            /\ (~r2 /\ ~r3 /\ r4) => LastResult = <<"warning", 88, "Elevated Latency">>
            /\ (~r2 /\ ~r3 /\ ~r4 /\ r5) => LastResult = <<"warning", 85, "Packet Loss Detected">>
            /\ (~r2 /\ ~r3 /\ ~r4 /\ ~r5 /\ r6) => LastResult = <<"warning", 82, "Low Bandwidth">>
            /\ (~r2 /\ ~r3 /\ ~r4 /\ ~r5 /\ ~r6) => LastResult = <<"healthy", 95, None>>
            /\ (r2 /\ r4) => LastResult = <<"critical", 98, "High Latency Detected">>
            /\ m.latency > LatencyCritical =>
                 LastResult = <<"critical", 98, "High Latency Detected">>

\* Reached: a 45.0 ms reading, above the window's mean + 2*std and above 40 but not
\* above 70, with critical packet loss as well, was classified by rule 2.
C3_Witness ==
    /\ Called
    /\ Len(network_history) >= MinSamples
    /\ metrics[1] = Reading(450, 400, 800)
    /\ HighLatency(metrics[1], recent_data[1])
    /\ CriticalPacketLoss(metrics[1], recent_data[1])
    /\ ElevatedLatency(metrics[1], recent_data[1])
    /\ LastResult = <<"critical", 98, "High Latency Detected">>

---------------------------------------------------------------------------
(* C4 *)

\* C4: the history never holds more than 100 readings, and it holds the most
\* recently appended ones (all of them up to 100), oldest first.
C4_BoundedFifo ==
    /\ Len(network_history) <= MaxHistory
    /\ network_history = LastAppended(MaxHistory)

\* Reached: more than 100 readings were appended, the first (an odd one) was
\* evicted and the history is full.
C4_Witness ==
    /\ Len(appended) > MaxHistory
    /\ appended[1].reading # Baseline
    /\ Len(network_history) = MaxHistory
    /\ \A k \in 1..Len(network_history) : network_history[k] = Baseline

---------------------------------------------------------------------------
(* C5 *)

\* C5 (as claimed): two overlapping calls for different devices, begun on history
\* pair_base, return what they return run one after the other, in one of the two orders.
C5_AsSequential ==
    ( /\ pair_n = 2
      /\ ~InCall(1) /\ ~InCall(2)
      /\ devices[1] # <<>> /\ devices[2] # <<>>
      /\ devices[1][Len(devices[1])].id # devices[2][Len(devices[2])].id )
    =>
    LET d1 == devices[1][Len(devices[1])]
        d2 == devices[2][Len(devices[2])]
        m1 == Reading(d1.latency, d1.packet_loss, d1.bandwidth)
        m2 == Reading(d2.latency, d2.packet_loss, d2.bandwidth)
        h1 == DequeAppend(pair_base, m1)
        h2 == DequeAppend(pair_base, m2)
    IN  \/ /\ ResultOf(d1) = DetectResult(h1, m1)
           /\ ResultOf(d2) = DetectResult(DequeAppend(h1, m2), m2)
        \/ /\ ResultOf(d2) = DetectResult(h2, m2)
           /\ ResultOf(d1) = DetectResult(DequeAppend(h2, m1), m1)

---------------------------------------------------------------------------
(* C6 *)

\* C6 (as claimed): no other call appends to the history between a call's own
\* append and its snapshot, so the snapshot's newest element is the call's own reading.
C6_AppendToSnapshotAtomic ==
    \A t \in Threads : pc[t] = "classify" => snap_pos[t] = own_pos[t]

---------------------------------------------------------------------------
(* C7 *)

\* The 30 readings before the last one all have packet_loss 0.20 and the last one has 4.00.
C7_Scenario ==
    /\ Called
    /\ Len(appended) > RecentWindow
    /\ metrics[1].packet_loss = 400
    /\ \A k \in (Len(appended) - RecentWindow)..(Len(appended) - 1) :
           appended[k].reading.packet_loss = 20

\* C7 (as claimed): in that scenario the result is (critical, 97, 'Critical Packet
\* Loss') whatever the latencies and bandwidths are.
C7_AlwaysCriticalPacketLoss ==
    C7_Scenario => LastResult = <<"critical", 97, "Critical Packet Loss">>

\* C7 (amended): in that scenario the result is (critical, 97, 'Critical Packet
\* Loss') unless the new reading's latency satisfies rule 2.
C7_CriticalPacketLossUnlessHighLatency ==
    (C7_Scenario /\ ~HighLatency(metrics[1], recent_data[1]))
        => LastResult = <<"critical", 97, "Critical Packet Loss">>

\* Reached: the scenario, with a new reading of low bandwidth that does not satisfy
\* rule 2, and the packet-loss result.
C7_Witness ==
    /\ C7_Scenario
    /\ ~HighLatency(metrics[1], recent_data[1])
    /\ metrics[1].bandwidth = 500
    /\ LowBandwidth(metrics[1], recent_data[1])
    /\ LastResult = <<"critical", 97, "Critical Packet Loss">>

---------------------------------------------------------------------------
(* C8 *)

\* C8: in every interleaving, a call that passed the length check takes its snapshot
\* from a history of at least 10 entries and computes its statistics over a window
\* of at least 10 entries, and every call that returned did so with one of the
\* classifications.
C8_StatisticsGuarded ==
    \A t \in Threads :
        /\ pc[t] = "snapshot" => Len(network_history) >= MinSamples
        /\ pc[t] = "classify" => Len(recent_data[t]) >= MinSamples
        /\ \A k \in 1..Len(devices[t]) : ResultOf(devices[t][k]) \in SevenResults

\* Reached: a call is about to compute its statistics while the other thread is
\* inside a call of its own.
C8_Witness ==
    \E t \in Threads :
        /\ pc[t] = "classify"
        /\ InCall(Other(t))
        /\ Len(recent_data[t]) >= MinSamples

---------------------------------------------------------------------------
(* C9 *)

---------------------------------------------------------------------------
(* C10 *)

\* The devices of a poll that are not healthy, in device order.
NotHealthy(ds) ==
    LET Bad(d) == d.status # "healthy"
    IN  SelectSeq(ds, Bad)

\* C10: every result is one of the seven tuples, so that severity is healthy exactly
\* when there is no issue and every issue is a key of the recommendations; and the
\* anomalies of a response are exactly the poll's devices that are not healthy, each
\* with the recommendation of its issue, never the default one.
C10_ResultsAndAnomalies ==
    /\ \A k \in 1..Len(devices[1]) :
           LET d == devices[1][k]
           IN  /\ ResultOf(d) \in SevenResults
               /\ (d.status = "healthy") <=> (d.issue = None)
               /\ d.issue # None => d.issue \in RecommendationKeys
    /\ pc[1] = "idle" =>
           LET bad == NotHealthy(devices[1])
           IN  /\ Len(anomalies[1]) = Len(bad)
               /\ \A k \in 1..Len(bad) :
                      /\ anomalies[1][k].device = bad[k].id
                      /\ anomalies[1][k].issue = bad[k].issue
                      /\ anomalies[1][k].severity = bad[k].status
                      /\ anomalies[1][k].confidence = bad[k].confidence
                      /\ anomalies[1][k].recommendation = Recommendations[bad[k].issue]
                      /\ anomalies[1][k].recommendation # DefaultRecommendation
               /\ stats[1].healthy + Len(bad) = Len(devices[1])

\* Reached: a response with two anomalies of different issues among twelve devices.
C10_Witness ==
    /\ pc[1] = "idle"
    /\ Len(devices[1]) = NumDevices
    /\ Len(anomalies[1]) = 2
    /\ anomalies[1][1].issue # anomalies[1][2].issue
    /\ anomalies[1][2].issue = "Low Bandwidth"

====
